---- MODULE Spec2Model ----
(***************************************************************************)
(* Model of the logbook frontend.                                          *)
(*                                                                         *)
(* AddressSearchInput (components/AddressSearchInput.tsx) is modelled as a *)
(* state machine: one action per DOM event, timer callback or promise      *)
(* settlement.  An action contains the handler, the re-render it causes    *)
(* and the effects (useEffect / useLayoutEffect) React runs for that       *)
(* render, because React flushes them before the next event is handled.    *)
(* Time is counted in ticks of 100ms.                                      *)
(*                                                                         *)
(* TripRouteMap (components/TripRouteMap.tsx) is modelled by its props,    *)
(* its memoized values and the view of the map it drives: one action per   *)
(* render with a new prop, and one for the user dragging the map.          *)
(*                                                                         *)
(* LogsViewerPage (pages/LogsViewerPage.tsx) is modelled by its state and  *)
(* its pending listTripLogs and getTripLog promises: one action per click  *)
(* and one per promise that settles.                                       *)
(*                                                                         *)
(* Spec is one AddressSearchInput, SpecMulti two of them on one page,      *)
(* SpecMap the TripRouteMap, SpecViewer the LogsViewerPage.                *)
(***************************************************************************)
EXTENDS Integers, Sequences, FiniteSets, TLC

(***************************************************************************)
(* Bounds of the model                                                     *)
(***************************************************************************)
\* fetchSuggestions calls per run
MaxRequests == 2

(***************************************************************************)
(* Program constants                                                       *)
(***************************************************************************)
\* setTimeout(..., 300): three ticks of 100ms
DebounceTicks == 3
\* query.trim().length < 3
MinQueryLen == 3
\* rect.bottom + 4
DropdownGap == 4
\* TripPlannerPage renders three AddressSearchInput elements
NumInstances == 3

Instances == 1..NumInstances

(***************************************************************************)
(* Values                                                                  *)
(***************************************************************************)
\* T | null
None == <<>>
Some(x) == <<x>>

\* strings are sequences of characters
Whitespace == {" "}

RECURSIVE TrimStart(_)
TrimStart(s) ==
  IF s # <<>> /\ Head(s) \in Whitespace THEN TrimStart(Tail(s)) ELSE s

RECURSIVE TrimEnd(_)
TrimEnd(s) ==
  IF s # <<>> /\ s[Len(s)] \in Whitespace
  THEN TrimEnd(SubSeq(s, 1, Len(s) - 1))
  ELSE s

\* String.prototype.trim
Trim(s) == TrimEnd(TrimStart(s))

\* values the user can leave in the input element
Texts ==
  { <<>>,
    <<"a", "b", " ">>,
    <<"a", "b", "c">>,
    <<"a", "b", "c", "d">> }

\* messages
NoResultsMsg == "No results found"
FailedMsg == "Failed to search places"
NetworkMsg == "Network Error"


(***************************************************************************)
(* State                                                                   *)
(***************************************************************************)
VARIABLES
  mounted,        \* mounted[i]: instance i is in the component tree
  query,          \* useState("")
  suggestions,    \* useState<PlaceSuggestion[]>([])
  open,           \* useState(false)
  error,          \* useState<string | null>(null)
  dropdownStyle,  \* useState<{top,left,width} | null>(null)
  justSelected,   \* justSelectedRef.current
  effectHandle,   \* handle captured by the debounce effect's cleanup
  point,          \* the page's point written by onLocationSelected
  timers,         \* the browser's pending setTimeout entries
  inflight,       \* pending fetchSuggestions promises
  listeners,      \* window listeners: <<instance, event type>>
  scrollPos,      \* scroll offset of the page
  winWidth,       \* width of the window
  issued,         \* log of GET /places-search/ requests: [inst, seq, q]
  nextSeq,        \* number of the next fetchSuggestions call
  maxApplied,     \* maxApplied[i]: highest call number whose result was applied
  quiet,          \* quiet[i]: ticks since query[i] last changed (capped)
  sinceSelect,    \* sinceSelect[i]: handleSelect ran and no user edit since
  reqSinceEdit,   \* reqSinceEdit[i]: fetchSuggestions calls since the last user edit
  lastResp,       \* the last fetchSuggestions result applied: [inst, seq, kind, n]
  map,            \* TripRouteMap: its props, memos, marker keys and map
                  \* view; None while no TripRouteMap is mounted
  viewer          \* LogsViewerPage: its state and its pending requests;
                  \* None while no LogsViewerPage is mounted

compVars == <<mounted, query, suggestions, open, error, dropdownStyle,
              justSelected, effectHandle, point>>
envVars == <<timers, inflight, listeners, scrollPos, winWidth>>
histVars == <<issued, nextSeq, maxApplied, quiet, sinceSelect, reqSinceEdit, lastResp>>
mapVars == <<map>>
viewerVars == <<viewer>>
vars == <<compVars, envVars, histVars, mapVars, viewerVars>>

\* the parts of the state of TripRouteMap
\* prop: null, [lng, lat][] or string
encodedPolyline == map.encodedPolyline
\* props current, pickup, dropoff
anchors == map.anchors
\* prop stops (may be absent)
stops == map.stops
\* useMemo: the decoded route, [lat, lng] pairs
path == map.path
\* useMemo: the stops with their positions
stopMarkers == map.stopMarkers
\* useMemo: center handed to MapContainer
center == map.center
\* keys of the rendered stop markers
markerKeys == map.markerKeys
\* the view of the Leaflet map
view == map.view

(***************************************************************************)
(* placesService.ts                                                        *)
(***************************************************************************)
\* a feature of the places-search response: with properties.label and
\* geometry.coordinates [lng, lat], or with neither
LabelledFeature ==
  [label |-> Some(<<"a", "b", "c", "d">>), coordinates |-> Some(<<2, 1>>)]
BareFeature == [label |-> None, coordinates |-> None]
Features == {LabelledFeature, BareFeature}

\* the feature lists a response can carry
FeatureLists ==
  { <<>>, <<LabelledFeature>>, <<BareFeature>>, <<LabelledFeature, BareFeature>> }

\* what the HTTP call can do: reject (with an Error or with something else),
\* answer with an error body, or answer with a feature list
Outcomes ==
  {[kind |-> "reject", isError |-> TRUE, message |-> NetworkMsg, features |-> <<>>],
   [kind |-> "reject", isError |-> FALSE, message |-> "", features |-> <<>>],
   [kind |-> "error_body", isError |-> FALSE, message |-> "", features |-> <<>>]}
  \cup {[kind |-> "features", isError |-> FALSE, message |-> "", features |-> f] :
          f \in FeatureLists}

\* features.map(...): one PlaceSuggestion per feature
ToSuggestion(feature, index, q) ==
  LET coords == IF feature.coordinates = None THEN <<0, 0>>
                ELSE feature.coordinates[1]
  IN [id |-> index,
      label |-> IF feature.label = None THEN q ELSE feature.label[1],
      lat |-> coords[2],
      lng |-> coords[1]]

\* does searchPlaces(q) call axios.get
SendsRequest(q) == Len(Trim(q)) >= MinQueryLen

\* searchPlaces: [ok |-> TRUE, value |-> suggestions] for a fulfilled promise,
\* [ok |-> FALSE, ...] for a rejected one
SearchPlaces(q, outcome) ==
  IF ~SendsRequest(q)
  THEN [ok |-> TRUE, value |-> <<>>, isError |-> FALSE, message |-> ""]
  ELSE IF outcome.kind = "reject"
  THEN [ok |-> FALSE, value |-> <<>>, isError |-> outcome.isError,
        message |-> outcome.message]
  ELSE IF outcome.kind = "error_body"
  THEN [ok |-> TRUE, value |-> <<>>, isError |-> FALSE, message |-> ""]
  ELSE [ok |-> TRUE,
        value |-> [k \in 1..Len(outcome.features) |->
                     ToSuggestion(outcome.features[k], k - 1, q)],
        isError |-> FALSE, message |-> ""]

(***************************************************************************)
(* AddressSearchInput: pure parts                                          *)
(***************************************************************************)
\* variant: the catch block forgets setSuggestions([])
FetchSuggestionsApply_KeepList(res, oldOpen, oldError, oldSuggestions) ==
  IF res.ok
  THEN [suggestions |-> res.value,
        open |-> TRUE,
        error |-> IF Len(res.value) = 0 THEN Some(NoResultsMsg) ELSE oldError]
  ELSE [suggestions |-> oldSuggestions,
        open |-> oldOpen,
        error |-> Some(IF res.isError THEN res.message ELSE FailedMsg)]

\* fetchSuggestions after the await: the state it sets
FetchSuggestionsApply(res, oldOpen, oldError, oldSuggestions) ==
  IF res.ok
  THEN [suggestions |-> res.value,
        open |-> TRUE,
        error |-> IF Len(res.value) = 0 THEN Some(NoResultsMsg) ELSE oldError]
  ELSE [suggestions |-> <<>>,
        open |-> oldOpen,
        error |-> Some(IF res.isError THEN res.message ELSE FailedMsg)]

\* which branch the debounce effect takes for a new query
EffectBranch(js, q) ==
  IF js THEN "skip"
  ELSE IF Len(Trim(q)) < MinQueryLen THEN "clear"
  ELSE "arm"

\* variant: the effect returns no cleanup
ClearTimeout_Noop(T, h) == T

\* clearTimeout(handle) of the effect's cleanup
ClearTimeout(T, h) == {x \in T : Some(x.handle) # h}

\* variant: a handle is handed out again while another instance still holds it
NewHandle_Reused(T, i) ==
  CHOOSE n \in 1..(Cardinality(T) + 1) : \A x \in T : x.handle # n

\* the handle setTimeout returns to instance i: a number the browser has not
\* handed out before, so none of a pending timer and none that another
\* instance's cleanup still holds (the instance's own old handle is
\* overwritten by this one)
NewHandle(T, i) ==
  CHOOSE n \in 1..(Cardinality(T) + NumInstances) :
    /\ \A x \in T : x.handle # n
    /\ \A j \in Instances \ {i} : effectHandle[j] # Some(n)

\* setTimeout(() => {...}, 300) of the effect
SetTimeout(T, i, q) ==
  T \cup {[inst |-> i, handle |-> NewHandle(T, i), q |-> q,
           left |-> DebounceTicks]}

\* inputRef.current.getBoundingClientRect()
BoundingRect(i, sp, ww) ==
  [bottom |-> 20 * i - 10 * sp, left |-> 8, width |-> 100 * ww]

\* updateDropdownPosition: the style it sets, given the mounted input
UpdateDropdownPosition(i, sp, ww) ==
  LET rect == BoundingRect(i, sp, ww)
  IN Some([top |-> rect.bottom + DropdownGap,
           left |-> rect.left,
           width |-> rect.width])

ListenersOf(i) == {<<i, "scroll">>, <<i, "resize">>}

\* cleanup of the geometry effect: removeEventListener twice
RemoveListeners(L, i) == L \ ListenersOf(i)

\* variant: the previous run's listeners are not removed when the panel closes
RunLayoutEffect_NoCleanup(i, o, n, L, sp, ww) ==
  IF o /\ n > 0
  THEN [style |-> UpdateDropdownPosition(i, sp, ww),
        listeners |-> L \cup ListenersOf(i)]
  ELSE [style |-> None, listeners |-> L]

\* body of the geometry effect for the committed open flag and list length
RunLayoutEffect(i, o, n, L, sp, ww) ==
  IF o /\ n > 0
  THEN [style |-> UpdateDropdownPosition(i, sp, ww),
        listeners |-> RemoveListeners(L, i) \cup ListenersOf(i)]
  ELSE [style |-> None, listeners |-> RemoveListeners(L, i)]

\* variant: suggestions.length is missing from the dependency list
CommitLayout_OpenOnly(i, o, n) ==
  IF o = open[i]
  THEN [style |-> dropdownStyle[i], listeners |-> listeners]
  ELSE RunLayoutEffect(i, o, n, listeners, scrollPos, winWidth)

\* React re-runs the geometry effect only when [open, suggestions.length]
\* differs from the previous render
CommitLayout(i, o, n) ==
  IF o = open[i] /\ n = Len(suggestions[i])
  THEN [style |-> dropdownStyle[i], listeners |-> listeners]
  ELSE RunLayoutEffect(i, o, n, listeners, scrollPos, winWidth)

\* dropdownContent is not null
Displayed(i) ==
  mounted[i] /\ open[i] /\ Len(suggestions[i]) > 0 /\ dropdownStyle[i] # None

\* the error div is rendered
ErrorShown(i) == mounted[i] /\ error[i] # None /\ error[i] # Some("")

Applied(i, seq, kind, n) == [inst |-> i, seq |-> seq, kind |-> kind, n |-> n]

\* variant: a setter that still writes after the component has unmounted
SetState_Unguarded(i, old, new) == new

\* a useState setter: React drops the update of a component that has
\* unmounted
SetState(i, old, new) == IF mounted[i] THEN new ELSE old

(***************************************************************************)
(* TripRouteMap.tsx: inputs.  Coordinates are whole numbers of 1e-5        *)
(* degrees, the precision of the polyline encoding.                        *)
(***************************************************************************)
\* longest array route
MaxPath == 4
\* longest encoded string
MaxEnc == 4
\* longest stop list
MaxStops == 3

\* the [lng, lat] pair at place k of an array route: unsorted in both axes
ArrayPointAt(k) == <<10 * ((3 * k) % 7), 10 * ((5 * k) % 7) - 20>>

\* route_polyline as [number, number][]
ArrayRoutes ==
  {[kind |-> "array", value |-> [k \in 1..n |-> ArrayPointAt(k + o)]] :
     n \in 0..MaxPath, o \in {0, 1}}

\* characters of an encoded string and their char codes: "@" ends a value
\* with the bits 00001, "a" continues a value with the bits 00010
EncChars == {"@", "a"}
CharCode == [c \in EncChars |-> IF c = "@" THEN 64 ELSE 97]

RECURSIVE StringsUpTo(_)
StringsUpTo(n) ==
  IF n = 0 THEN {<<>>}
  ELSE LET shorter == StringsUpTo(n - 1)
       IN shorter \cup {Append(str, c) : str \in shorter, c \in EncChars}

\* route_polyline as string
EncodedRoutes == {[kind |-> "string", value |-> str] : str \in StringsUpTo(MaxEnc)}

NullRoute == [kind |-> "null", value |-> <<>>]

RoutePolylines == {NullRoute} \cup ArrayRoutes \cup EncodedRoutes

AnchorNames == {"current", "pickup", "dropoff"}

\* the Point a selection gives to each anchor
AnchorPoint(name) ==
  IF name = "current" THEN [lat |-> 30, lng |-> -10]
  ELSE IF name = "pickup" THEN [lat |-> -30, lng |-> 70]
  ELSE [lat |-> 10, lng |-> 20]

NoAnchors == [name \in AnchorNames |-> None]

AnchorSettings ==
  {a \in [AnchorNames -> {None} \cup {Some(AnchorPoint(n)) : n \in AnchorNames}] :
     \A n \in AnchorNames : a[n] \in {None, Some(AnchorPoint(n))}}

FuelStop == <<"f", "u", "e", "l", "_", "s", "t", "o", "p">>
Break == <<"b", "r", "e", "a", "k">>

\* the stop at place k of a stop list: fuel stops and breaks in turn
StopAt(k) ==
  [type |-> IF k % 2 = 1 THEN FuelStop ELSE Break,
   duration_minutes |-> 15 * k]

\* the stops prop: absent, or a list
StopLists == {None} \cup {Some([k \in 1..n |-> StopAt(k)]) : n \in 0..MaxStops}

(***************************************************************************)
(* polyline.decode of @mapbox/polyline, as path's useMemo calls it         *)
(***************************************************************************)
\* do { byte = str.charCodeAt(index++) - 63;
\*      result |= (byte & 0x1f) << shift; shift += 5 } while (byte >= 0x20)
\* Past the end charCodeAt gives NaN: the bits are 0 and the loop ends.
\* Up to six characters the shifted bits stay inside 32 bits.
RECURSIVE ReadValue(_, _, _)
ReadValue(str, index, shift) ==
  IF index > Len(str)
  THEN [result |-> 0, next |-> index + 1]
  ELSE LET byte == CharCode[str[index]] - 63
           bits == (byte % 32) * (2 ^ shift)
       IN IF byte >= 32
          THEN LET rest == ReadValue(str, index + 1, shift + 5)
               IN [result |-> bits + rest.result, next |-> rest.next]
          ELSE [result |-> bits, next |-> index + 1]

\* (result & 1) ? ~(result >> 1) : (result >> 1)
Unzigzag(result) ==
  IF result % 2 = 1 THEN -(result \div 2) - 1 ELSE result \div 2

\* while (index < str.length) { ...; coordinates.push([lat / factor, lng / factor]) }
RECURSIVE DecodeFrom(_, _, _, _)
DecodeFrom(str, index, lat, lng) ==
  IF index > Len(str) THEN <<>>
  ELSE LET a == ReadValue(str, index, 0)
           b == ReadValue(str, a.next, 0)
           newLat == lat + Unzigzag(a.result)
           newLng == lng + Unzigzag(b.result)
       IN <<<<newLat, newLng>>>> \o DecodeFrom(str, b.next, newLat, newLng)

\* polyline.decode(str): it returns for every string, it never throws
PolylineDecode(str) == [threw |-> FALSE, value |-> DecodeFrom(str, 1, 0, 0)]

\* the useMemo of path
DecodePath(route) ==
  IF route.kind = "null" THEN <<>>
  ELSE IF route.kind = "array"
  THEN [k \in 1..Len(route.value) |-> <<route.value[k][2], route.value[k][1]>>]
  ELSE LET decoded == PolylineDecode(route.value)
       IN IF decoded.threw THEN <<>> ELSE decoded.value

(***************************************************************************)
(* TripRouteMap.tsx: stop placement                                        *)
(***************************************************************************)
\* variant: Math.ceil in place of Math.floor
PlaceIndex_Ceil(index, n, len) ==
  LET product == (index + 1) * (len - 1)
      up == (product + n) \div (n + 1)
  IN IF up < len - 1 THEN up ELSE len - 1

\* variant: t = (index + 1) / stops.length
PlaceIndex_OverN(index, n, len) ==
  LET floor == ((index + 1) * (len - 1)) \div n
  IN IF floor < len - 1 THEN floor ELSE len - 1

\* idx = Math.min(path.length - 1, Math.floor(t * (path.length - 1))) with
\* t = (index + 1) / (stops.length + 1), for stop number index of n on a path
\* of len points.  The quotient is taken exactly; below 10 stops the doubles
\* of the code give the same floor
\* on every path of fewer than 60 points.
PlaceIndex(index, n, len) ==
  LET floor == ((index + 1) * (len - 1)) \div (n + 1)
  IN IF floor < len - 1 THEN floor ELSE len - 1

\* variant: stops are placed on a path of one point as well
StopMarkers_OnePoint(stopList, route) ==
  IF stopList = None \/ Len(stopList[1]) = 0 \/ Len(route) < 1 THEN <<>>
  ELSE [k \in 1..Len(stopList[1]) |->
          LET idx == PlaceIndex(k - 1, Len(stopList[1]), Len(route))
          IN [type |-> stopList[1][k].type,
              duration_minutes |-> stopList[1][k].duration_minutes,
              position |-> route[idx + 1],
              idx |-> idx]]

\* the useMemo of stopMarkers; idx is kept with each marker to tell which
\* vertex was taken
StopMarkers(stopList, route) ==
  IF stopList = None \/ Len(stopList[1]) = 0 \/ Len(route) < 2 THEN <<>>
  ELSE [k \in 1..Len(stopList[1]) |->
          LET idx == PlaceIndex(k - 1, Len(stopList[1]), Len(route))
          IN [type |-> stopList[1][k].type,
              duration_minutes |-> stopList[1][k].duration_minutes,
              position |-> route[idx + 1],
              idx |-> idx]]

\* template literal conversion of a whole number
DigitChars == <<"0", "1", "2", "3", "4", "5", "6", "7", "8", "9">>

RECURSIVE Digits(_)
Digits(n) ==
  IF n < 10 THEN <<DigitChars[n + 1]>>
  ELSE Digits(n \div 10) \o <<DigitChars[(n % 10) + 1]>>

NumberToString(n) == IF n < 0 THEN <<"-">> \o Digits(-n) ELSE Digits(n)

\* variant: the key leaves out the list index
MarkerKey_NoIndex(stop, idx) ==
  stop.type \o <<"-">> \o NumberToString(stop.position[1])
            \o <<"-">> \o NumberToString(stop.position[2])

\* key={`${stop.type}-${idx}-${stop.position[0]}-${stop.position[1]}`}
MarkerKey(stop, idx) ==
  stop.type \o <<"-">> \o NumberToString(idx)
            \o <<"-">> \o NumberToString(stop.position[1])
            \o <<"-">> \o NumberToString(stop.position[2])

\* stopMarkers.map((stop, idx) => <CircleMarker key=... />)
MarkerKeys(markers) == [k \in 1..Len(markers) |-> MarkerKey(markers[k], k - 1)]

(***************************************************************************)
(* TripRouteMap.tsx: center and viewport                                   *)
(***************************************************************************)
\* a number n / d
Ratio(n, d) == [num |-> n, den |-> d]

\* DEFAULT_CENTER, cut to 1e-5 degrees
DefaultCenter == <<Ratio(4069959, 1), Ratio(-10304816, 1)>>

\* zoom={4} of MapContainer
InitialZoom == 4
\* padding: [24, 24]
FitPadding == 24
\* maxZoom: 14
FitMaxZoom == 14

\* [...path] and then the anchors that are present, as [lat, lng]
PointsOf(route, anch) ==
  LET one(name) == IF anch[name] = None THEN <<>>
                   ELSE <<<<anch[name][1].lat, anch[name][1].lng>>>>
  IN route \o one("current") \o one("pickup") \o one("dropoff")

\* the for loop of getBoundsCenter from points[k] on; env is None while
\* the four values are still the infinities
RECURSIVE ScanBounds(_, _, _)
ScanBounds(points, k, env) ==
  IF k > Len(points) THEN env
  ELSE LET lat == points[k][1]
           lng == points[k][2]
           next ==
             IF env = None
             THEN [minLat |-> lat, maxLat |-> lat, minLng |-> lng, maxLng |-> lng]
             ELSE [minLat |-> IF lat < env[1].minLat THEN lat ELSE env[1].minLat,
                   maxLat |-> IF lat > env[1].maxLat THEN lat ELSE env[1].maxLat,
                   minLng |-> IF lng < env[1].minLng THEN lng ELSE env[1].minLng,
                   maxLng |-> IF lng > env[1].maxLng THEN lng ELSE env[1].maxLng]
       IN ScanBounds(points, k + 1, Some(next))

\* variant: the mean of the points in place of the middle of the envelope
GetBoundsCenter_Centroid(points) ==
  IF Len(points) = 0 THEN DefaultCenter
  ELSE LET RECURSIVE Sum(_, _)
           Sum(k, axis) == IF k = 0 THEN 0 ELSE points[k][axis] + Sum(k - 1, axis)
       IN <<Ratio(Sum(Len(points), 1), Len(points)),
            Ratio(Sum(Len(points), 2), Len(points))>>

\* getBoundsCenter
GetBoundsCenter(points) ==
  IF Len(points) = 0 THEN DefaultCenter
  ELSE LET env == ScanBounds(points, 1, None)[1]
       IN <<Ratio(env.minLat + env.maxLat, 2), Ratio(env.minLng + env.maxLng, 2)>>

\* the useMemo of center
Center(route, anch) ==
  LET points == PointsOf(route, anch)
  IN IF Len(points) # 0 THEN GetBoundsCenter(points) ELSE DefaultCenter

\* L.latLngBounds(points): the smallest rectangle around the points
LatLngBounds(points) ==
  LET lats == {points[k][1] : k \in DOMAIN points}
      lngs == {points[k][2] : k \in DOMAIN points}
      least(S) == CHOOSE x \in S : \A y \in S : x <= y
      most(S) == CHOOSE x \in S : \A y \in S : x >= y
  IN [south |-> least(lats), west |-> least(lngs),
      north |-> most(lats), east |-> most(lngs)]

\* the view MapContainer starts with
InitialView(c) == [kind |-> "initial", center |-> c, zoom |-> InitialZoom]

\* the view after the user has dragged the map
DraggedView == [kind |-> "dragged"]

\* variant: the anchors are left out of the fitted points
FitEffect_PathOnly(v, route, anch) ==
  LET points == route
  IN IF Len(points) = 0 THEN v
     ELSE [kind |-> "fit", bounds |-> LatLngBounds(points),
           padding |-> <<FitPadding, FitPadding>>, maxZoom |-> FitMaxZoom]

\* the effect of MapFitBounds: the view it leaves, given the view v before
FitEffect(v, route, anch) ==
  LET points == PointsOf(route, anch)
  IN IF Len(points) = 0 THEN v
     ELSE [kind |-> "fit", bounds |-> LatLngBounds(points),
           padding |-> <<FitPadding, FitPadding>>, maxZoom |-> FitMaxZoom]

(***************************************************************************)
(* Initial state: the instances in M have mounted and run their effects    *)
(* once (empty query: the "clear" branch; panel closed: style null).       *)
(***************************************************************************)
InitInputs(M) ==
  /\ mounted = [i \in Instances |-> i \in M]
  /\ query = [i \in Instances |-> <<>>]
  /\ suggestions = [i \in Instances |-> <<>>]
  /\ open = [i \in Instances |-> FALSE]
  /\ error = [i \in Instances |-> None]
  /\ dropdownStyle = [i \in Instances |-> None]
  /\ justSelected = [i \in Instances |-> FALSE]
  /\ effectHandle = [i \in Instances |-> None]
  /\ point = [i \in Instances |-> None]
  /\ timers = {}
  /\ inflight = {}
  /\ listeners = {}
  /\ scrollPos = 0
  /\ winWidth = 1
  /\ issued = <<>>
  /\ nextSeq = 1
  /\ maxApplied = [i \in Instances |-> 0]
  /\ quiet = [i \in Instances |-> 0]
  /\ sinceSelect = [i \in Instances |-> FALSE]
  /\ reqSinceEdit = [i \in Instances |-> 0]
  /\ lastResp = Applied(0, 0, "", 0)

\* TripRouteMap mounts with the given props: the memos are computed, the
\* map is created and the effect of MapFitBounds runs
MapMount(route, anch, stopList) ==
  LET decoded == DecodePath(route)
      markers == StopMarkers(stopList, decoded)
      middle == Center(decoded, anch)
  IN map = [encodedPolyline |-> route,
            anchors |-> anch,
            stops |-> stopList,
            path |-> decoded,
            stopMarkers |-> markers,
            markerKeys |-> MarkerKeys(markers),
            center |-> middle,
            view |-> FitEffect(InitialView(middle), decoded, anch)]

\* the inputs alone: no TripRouteMap is mounted
InitWith(M) == InitInputs(M) /\ map = None /\ viewer = None

Init == InitWith({1})

\* the map alone, as the page first renders it: no route, no point, stops []
InitMap ==
  /\ InitInputs({})
  /\ MapMount(NullRoute, NoAnchors, Some(<<>>))
  /\ viewer = None

(***************************************************************************)
(* onChange={(e) => setQuery(e.target.value)} and the debounce effect      *)
(***************************************************************************)
Keystroke(i, t) ==
  /\ mounted[i]
  /\ t # query[i]
  /\ LET cleared == ClearTimeout(timers, effectHandle[i])
         branch == EffectBranch(justSelected[i], t)
         sug == IF branch = "clear" THEN <<>> ELSE suggestions[i]
         opn == IF branch = "clear" THEN FALSE ELSE open[i]
         lay == CommitLayout(i, opn, Len(sug))
     IN /\ query' = [query EXCEPT ![i] = t]
        /\ justSelected' = [justSelected EXCEPT ![i] = FALSE]
        /\ suggestions' = [suggestions EXCEPT ![i] = sug]
        /\ open' = [open EXCEPT ![i] = opn]
        /\ error' = [error EXCEPT ![i] = IF branch = "clear" THEN None ELSE @]
        /\ timers' = IF branch = "arm" THEN SetTimeout(cleared, i, t) ELSE cleared
        /\ effectHandle' =
             [effectHandle EXCEPT ![i] =
                IF branch = "arm" THEN Some(NewHandle(cleared, i)) ELSE None]
        /\ dropdownStyle' = [dropdownStyle EXCEPT ![i] = lay.style]
        /\ listeners' = lay.listeners
  /\ quiet' = [quiet EXCEPT ![i] = 0]
  /\ sinceSelect' = [sinceSelect EXCEPT ![i] = FALSE]
  /\ reqSinceEdit' = [reqSinceEdit EXCEPT ![i] = 0]
  /\ UNCHANGED <<mounted, point, inflight, scrollPos, winWidth, issued,
                 nextSeq, maxApplied, lastResp>>
  /\ UNCHANGED <<mapVars, viewerVars>>

(***************************************************************************)
(* The timer callback: setError(null); fetchSuggestions(query)             *)
(***************************************************************************)
TimerFire(tm) ==
  /\ tm \in timers
  /\ tm.left = 0
  /\ nextSeq <= MaxRequests
  /\ timers' = timers \ {tm}
  /\ error' = [error EXCEPT ![tm.inst] = SetState(tm.inst, @, None)]
  /\ inflight' = inflight \cup {[inst |-> tm.inst, seq |-> nextSeq, q |-> tm.q]}
  /\ issued' = IF SendsRequest(tm.q)
               THEN Append(issued, [inst |-> tm.inst, seq |-> nextSeq,
                                    q |-> Trim(tm.q)])
               ELSE issued
  /\ nextSeq' = nextSeq + 1
  /\ reqSinceEdit' = [reqSinceEdit EXCEPT ![tm.inst] = @ + 1]
  /\ UNCHANGED <<mounted, query, suggestions, open, dropdownStyle,
                 justSelected, effectHandle, point, listeners, scrollPos,
                 winWidth, maxApplied, quiet, sinceSelect, lastResp>>
  /\ UNCHANGED <<mapVars, viewerVars>>

(***************************************************************************)
(* The searchPlaces promise settles and fetchSuggestions continues         *)
(***************************************************************************)
Response(r, outcome) ==
  /\ r \in inflight
  /\ inflight' = inflight \ {r}
  /\ LET i == r.inst
         res == SearchPlaces(r.q, outcome)
         new == FetchSuggestionsApply(res, open[i], error[i], suggestions[i])
         lay == CommitLayout(i, new.open, Len(new.suggestions))
     IN /\ suggestions' =
             [suggestions EXCEPT ![i] = SetState(i, @, new.suggestions)]
        /\ open' = [open EXCEPT ![i] = SetState(i, @, new.open)]
        /\ error' = [error EXCEPT ![i] = SetState(i, @, new.error)]
        \* only a mounted component renders again and runs its effects
        /\ IF mounted[i]
           THEN /\ dropdownStyle' = [dropdownStyle EXCEPT ![i] = lay.style]
                /\ listeners' = lay.listeners
                /\ maxApplied' = [maxApplied EXCEPT ![i] =
                                    IF r.seq > @ THEN r.seq ELSE @]
                /\ lastResp' = Applied(i, r.seq, outcome.kind, Len(res.value))
           ELSE UNCHANGED <<dropdownStyle, listeners, maxApplied, lastResp>>
  /\ UNCHANGED <<mounted, query, justSelected, effectHandle, point, timers,
                 scrollPos, winWidth, issued, nextSeq, quiet, sinceSelect,
                 reqSinceEdit>>
  /\ UNCHANGED <<mapVars, viewerVars>>

(***************************************************************************)
(* handleSelect: a click on an item of the displayed list                  *)
(***************************************************************************)
HandleSelect(i, k) ==
  /\ Displayed(i)
  /\ k \in DOMAIN suggestions[i]
  /\ LET s == suggestions[i][k]
         changed == s.label # query[i]
         lay == CommitLayout(i, FALSE, 0)
     IN /\ query' = [query EXCEPT ![i] = s.label]
        /\ suggestions' = [suggestions EXCEPT ![i] = <<>>]
        /\ open' = [open EXCEPT ![i] = FALSE]
        /\ error' = [error EXCEPT ![i] = None]
        /\ point' = [point EXCEPT ![i] = Some([lat |-> s.lat, lng |-> s.lng])]
        \* the debounce effect runs only if the query text changed; it then
        \* finds the marker set, resets it and returns
        /\ justSelected' = [justSelected EXCEPT ![i] = ~changed]
        /\ timers' = IF changed THEN ClearTimeout(timers, effectHandle[i])
                     ELSE timers
        /\ effectHandle' = [effectHandle EXCEPT ![i] =
                              IF changed THEN None ELSE @]
        /\ quiet' = [quiet EXCEPT ![i] = IF changed THEN 0 ELSE @]
        /\ dropdownStyle' = [dropdownStyle EXCEPT ![i] = lay.style]
        /\ listeners' = lay.listeners
  /\ sinceSelect' = [sinceSelect EXCEPT ![i] = TRUE]
  /\ UNCHANGED <<mounted, inflight, scrollPos, winWidth, issued, nextSeq,
                 maxApplied, reqSinceEdit, lastResp>>
  /\ UNCHANGED <<mapVars, viewerVars>>

(***************************************************************************)
(* onFocus: if (suggestions.length > 0) setOpen(true)                      *)
(***************************************************************************)
Focus(i) ==
  /\ mounted[i]
  /\ LET opn == IF Len(suggestions[i]) > 0 THEN TRUE ELSE open[i]
         lay == CommitLayout(i, opn, Len(suggestions[i]))
     IN /\ open' = [open EXCEPT ![i] = opn]
        /\ dropdownStyle' = [dropdownStyle EXCEPT ![i] = lay.style]
        /\ listeners' = lay.listeners
  /\ UNCHANGED <<mounted, query, suggestions, error, justSelected,
                 effectHandle, point, timers, inflight, scrollPos, winWidth,
                 issued, nextSeq, maxApplied, quiet, sinceSelect,
                 reqSinceEdit, lastResp>>
  /\ UNCHANGED <<mapVars, viewerVars>>

(***************************************************************************)
(* Window events: every registered listener runs updateDropdownPosition,   *)
(* which does nothing when inputRef.current is null                        *)
(***************************************************************************)
Notify(type, sp, ww) ==
  [i \in Instances |->
     IF <<i, type>> \in listeners /\ mounted[i]
     THEN UpdateDropdownPosition(i, sp, ww)
     ELSE dropdownStyle[i]]

Scroll ==
  /\ scrollPos' = 1 - scrollPos
  /\ dropdownStyle' = Notify("scroll", scrollPos', winWidth)
  /\ UNCHANGED <<mounted, query, suggestions, open, error, justSelected,
                 effectHandle, point, timers, inflight, listeners, winWidth,
                 issued, nextSeq, maxApplied, quiet, sinceSelect,
                 reqSinceEdit, lastResp>>
  /\ UNCHANGED <<mapVars, viewerVars>>

Resize ==
  /\ winWidth' = 3 - winWidth
  /\ dropdownStyle' = Notify("resize", scrollPos, winWidth')
  /\ UNCHANGED <<mounted, query, suggestions, open, error, justSelected,
                 effectHandle, point, timers, inflight, listeners, scrollPos,
                 issued, nextSeq, maxApplied, quiet, sinceSelect,
                 reqSinceEdit, lastResp>>
  /\ UNCHANGED <<mapVars, viewerVars>>

(***************************************************************************)
(* Unmount: React runs the cleanup of both effects                         *)
(***************************************************************************)
Unmount(i) ==
  /\ mounted[i]
  /\ mounted' = [mounted EXCEPT ![i] = FALSE]
  /\ timers' = ClearTimeout(timers, effectHandle[i])
  /\ listeners' = RemoveListeners(listeners, i)
  /\ UNCHANGED <<query, suggestions, open, error, dropdownStyle, justSelected,
                 effectHandle, point, inflight, scrollPos, winWidth, issued,
                 nextSeq, maxApplied, quiet, sinceSelect, reqSinceEdit, lastResp>>
  /\ UNCHANGED <<mapVars, viewerVars>>

(***************************************************************************)
(* 100ms pass.  A timer that is due fires before time moves on.            *)
(***************************************************************************)
QuietCap == DebounceTicks + 1

Tick ==
  /\ \A tm \in timers : tm.left > 0
  /\ timers # {} \/ \E i \in Instances : mounted[i] /\ quiet[i] < QuietCap
  /\ timers' = {[tm EXCEPT !.left = @ - 1] : tm \in timers}
  /\ quiet' = [i \in Instances |->
                 IF mounted[i] /\ quiet[i] < QuietCap THEN quiet[i] + 1
                 ELSE quiet[i]]
  /\ UNCHANGED <<compVars, inflight, listeners, scrollPos, winWidth, issued,
                 nextSeq, maxApplied, sinceSelect, reqSinceEdit, lastResp>>
  /\ UNCHANGED <<mapVars, viewerVars>>

(***************************************************************************)
(* TripRouteMap renders again with a new encodedPolyline: path and the     *)
(* memos that depend on it are recomputed and the effect of MapFitBounds   *)
(* runs.  An equal string or null leaves the memo as it is; an array of    *)
(* a new response is a new reference.                                      *)
(***************************************************************************)
MapSetPolyline(route) ==
  /\ route # encodedPolyline \/ route.kind = "array"
  /\ LET decoded == DecodePath(route)
         markers == StopMarkers(stops, decoded)
     IN map' = [map EXCEPT !.encodedPolyline = route,
                           !.path = decoded,
                           !.stopMarkers = markers,
                           !.markerKeys = MarkerKeys(markers),
                           !.center = Center(decoded, anchors),
                           !.view = FitEffect(view, decoded, anchors)]
  /\ UNCHANGED <<compVars, envVars, histVars, viewerVars>>

(***************************************************************************)
(* A new current, pickup or dropoff: a Point object of a selection, or     *)
(* null                                                                    *)
(***************************************************************************)
MapSetAnchor(name, value) ==
  /\ value # None \/ anchors[name] # None
  /\ LET anch == [anchors EXCEPT ![name] = value]
     IN map' = [map EXCEPT !.anchors = anch,
                           !.center = Center(path, anch),
                           !.view = FitEffect(view, path, anch)]
  /\ UNCHANGED <<compVars, envVars, histVars, viewerVars>>

(***************************************************************************)
(* New stops: only stopMarkers depends on them                             *)
(***************************************************************************)
MapSetStops(stopList) ==
  /\ stopList # stops
  /\ LET markers == StopMarkers(stopList, path)
     IN map' = [map EXCEPT !.stops = stopList,
                           !.stopMarkers = markers,
                           !.markerKeys = MarkerKeys(markers)]
  /\ UNCHANGED <<compVars, envVars, histVars, viewerVars>>

(***************************************************************************)
(* The user drags the map                                                  *)
(***************************************************************************)
MapDrag ==
  /\ view # DraggedView
  /\ map' = [map EXCEPT !.view = DraggedView]
  /\ UNCHANGED <<compVars, envVars, histVars, viewerVars>>

NextMap ==
  \/ \E route \in RoutePolylines : MapSetPolyline(route)
  \/ \E name \in AnchorNames :
       \E value \in {None, Some(AnchorPoint(name))} : MapSetAnchor(name, value)
  \/ \E stopList \in StopLists : MapSetStops(stopList)
  \/ MapDrag

SpecMap == InitMap /\ [][NextMap]_vars

(***************************************************************************)
(* LogsViewerPage.tsx                                                      *)
(***************************************************************************)
\* getTripLog calls per run
MaxOpens == 3
\* listTripLogs calls per run
MaxFetches == 2

\* ids of the trip logs the server holds
LogIds == {1, 2}

\* GET /trip-logs/<id>/: the detail of log id
DetailOf(id) ==
  [daily_logs |-> IF id = 1 THEN <<"/media/1-1.png", "/media/1-2.png">> ELSE <<>>,
   total_distance_miles |-> 100 * id]

\* GET /trip-logs/: the summaries, as the list of their ids
LogLists == {<<>>, <<1, 2>>}

LoadLogsMsg == "Failed to load trip logs"
LoadLogMsg == "Failed to load log"

\* what a request of the page can do: reject (with an Error or with
\* something else) or answer
Settlements ==
  {[ok |-> FALSE, isError |-> TRUE, message |-> NetworkMsg],
   [ok |-> FALSE, isError |-> FALSE, message |-> ""],
   [ok |-> TRUE, isError |-> FALSE, message |-> ""]}

\* the parts of the state of LogsViewerPage
\* useState<TripLogSummary[]>([])
logs == viewer.logs
\* useState<TripLogDetail | null>(null)
selected == viewer.selected
\* useState<number | null>(null)
selectedId == viewer.selectedId
\* useState(false)
loading == viewer.loading
\* useState<string | null>(null) of the page
pageError == viewer.error
\* useState<Set<string>>(new Set())
imageErrors == viewer.imageErrors
\* pending getTripLog promises: [id, seq]
opening == viewer.opening
\* pending listTripLogs promises: their call numbers
fetching == viewer.fetching
\* numbers of the calls made so far
opens == viewer.opens
fetches == viewer.fetches

\* the page has mounted and its effect has called fetchLogs
InitViewer ==
  /\ InitInputs({})
  /\ map = None
  /\ viewer = [logs |-> <<>>,
               selected |-> None,
               selectedId |-> None,
               loading |-> TRUE,
               error |-> None,
               imageErrors |-> {},
               opening |-> {},
               fetching |-> {1},
               opens |-> 0,
               fetches |-> 1]

\* fetchLogs up to the await: a click on Refresh
FetchLogs ==
  /\ viewer # None
  /\ fetches < MaxFetches
  /\ viewer' = [viewer EXCEPT !.loading = TRUE,
                              !.error = None,
                              !.fetching = @ \cup {fetches + 1},
                              !.fetches = @ + 1]
  /\ UNCHANGED <<compVars, envVars, histVars, mapVars>>

\* fetchLogs after the await: setLogs or setError, then setLoading(false)
FetchLogsSettle(n, res, data) ==
  /\ viewer # None
  /\ n \in fetching
  /\ viewer' = [viewer EXCEPT
                  !.logs = IF res.ok THEN data ELSE @,
                  !.error = IF res.ok THEN @
                            ELSE Some(IF res.isError THEN res.message
                                      ELSE LoadLogsMsg),
                  !.loading = FALSE,
                  !.fetching = @ \ {n}]
  /\ UNCHANGED <<compVars, envVars, histVars, mapVars>>

\* openLog(id) up to getTripLog(id): a click on the button of a listed log
OpenLog(id) ==
  /\ viewer # None
  /\ \E k \in DOMAIN logs : logs[k] = id
  /\ opens < MaxOpens
  /\ viewer' = [viewer EXCEPT !.selected = None,
                              !.selectedId = Some(id),
                              !.error = None,
                              !.opening = @ \cup {[id |-> id, seq |-> opens + 1]},
                              !.opens = @ + 1]
  /\ UNCHANGED <<compVars, envVars, histVars, mapVars>>

\* .then(setSelected) / .catch(setError) of openLog
OpenLogSettle(r, res) ==
  /\ viewer # None
  /\ r \in opening
  /\ viewer' = [viewer EXCEPT
                  !.selected = IF res.ok THEN Some(DetailOf(r.id)) ELSE @,
                  !.error = IF res.ok THEN @
                            ELSE Some(IF res.isError THEN res.message
                                      ELSE LoadLogMsg),
                  !.opening = @ \ {r}]
  /\ UNCHANGED <<compVars, envVars, histVars, mapVars>>

\* onError of a log sheet image that is shown
ImageError(url) ==
  /\ viewer # None
  /\ selected # None
  /\ \E k \in DOMAIN selected[1].daily_logs : selected[1].daily_logs[k] = url
  /\ url \notin imageErrors
  /\ viewer' = [viewer EXCEPT !.imageErrors = @ \cup {url}]
  /\ UNCHANGED <<compVars, envVars, histVars, mapVars>>

NextViewer ==
  \/ FetchLogs
  \/ \E n \in fetching, res \in Settlements, data \in LogLists :
       FetchLogsSettle(n, res, data)
  \/ \E id \in LogIds : OpenLog(id)
  \/ \E r \in opening, res \in Settlements : OpenLogSettle(r, res)
  \/ \E id \in LogIds :
       \E k \in DOMAIN DetailOf(id).daily_logs :
         ImageError(DetailOf(id).daily_logs[k])

SpecViewer == InitViewer /\ [][NextViewer]_vars

Next ==
  \/ \E i \in Instances, t \in Texts : Keystroke(i, t)
  \/ \E tm \in timers : TimerFire(tm)
  \/ \E r \in inflight, outcome \in Outcomes : Response(r, outcome)
  \/ \E i \in Instances : \E k \in DOMAIN suggestions[i] : HandleSelect(i, k)
  \/ \E i \in Instances : Focus(i)
  \/ Scroll
  \/ Resize
  \/ \E i \in Instances : Unmount(i)
  \/ Tick

Spec == Init /\ [][Next]_vars

\* TripPlannerPage: several inputs on one page
InitMulti == InitWith({1, 2})

\* what the two inputs are fed: a long enough text, and a list of one
\* labelled feature in answer to it
MultiTexts == {t \in Texts : Len(t) = MinQueryLen}
MultiOutcomes ==
  {o \in Outcomes : o.kind = "features" /\ o.features = <<LabelledFeature>>}

\* the page renders its inputs unconditionally: none unmounts on its own
NextMulti ==
  \/ \E i \in Instances, t \in MultiTexts : Keystroke(i, t)
  \/ \E tm \in timers : TimerFire(tm)
  \/ \E r \in inflight, outcome \in MultiOutcomes : Response(r, outcome)
  \/ \E i \in Instances : \E k \in DOMAIN suggestions[i] : HandleSelect(i, k)
  \/ \E i \in Instances : Focus(i)
  \/ Scroll
  \/ Resize
  \/ Tick

SpecMulti == InitMulti /\ [][NextMulti]_vars

TypeOK ==
  /\ mounted \in [Instances -> BOOLEAN]
  /\ \A i \in Instances : query[i] \in Texts
  /\ open \in [Instances -> BOOLEAN]
  /\ nextSeq \in 1..(MaxRequests + 1)

(***************************************************************************)
(* Vocabulary of the properties                                            *)
(***************************************************************************)
\* this step is an onChange of instance i
UserEdit(i) == mounted[i] /\ query'[i] # query[i] /\ ~sinceSelect'[i]

\* this step applies the result of a fetchSuggestions call to instance i
ResultApplied(i) == lastResp' # lastResp /\ lastResp'.inst = i

TimersOf(i) == {tm \in timers : tm.inst = i}

RequestsOf(i) == {k \in DOMAIN issued : issued[k].inst = i}

(***************************************************************************)
(* C1: if a fetchSuggestions call's result arrives after the result of a   *)
(* later call of the same instance was applied, it changes none of         *)
(* suggestions, open flag and error message.                               *)
(***************************************************************************)
C1_LastRequestWins ==
  [][\A r \in inflight :
       (r \notin inflight' /\ mounted[r.inst] /\ r.seq < maxApplied[r.inst])
         => /\ suggestions'[r.inst] = suggestions[r.inst]
            /\ open'[r.inst] = open[r.inst]
            /\ error'[r.inst] = error[r.inst]]_vars

(***************************************************************************)
(* C2: from handleSelect until the next user edit of the query text the    *)
(* open flag is false and no suggestion list is displayed.                 *)
(***************************************************************************)
C2_SelectDoesNotReopen ==
  \A i \in Instances :
    (mounted[i] /\ sinceSelect[i]) => (~open[i] /\ ~Displayed(i))

(***************************************************************************)
(* C3: debounce.  At most one timer is pending per instance, a request is  *)
(* issued only after 300ms without a query change, and a user edit that    *)
(* leaves at least 3 trimmed characters and is followed by more than       *)
(* 300ms of quiet has issued exactly one request (so two such bursts       *)
(* issue exactly 2, and no burst issues more than 1).                      *)
(***************************************************************************)
C3_Debounce ==
  \A i \in Instances :
    /\ Cardinality(TimersOf(i)) <= 1
    /\ reqSinceEdit[i] <= 1
    /\ (reqSinceEdit[i] = 1 /\ ~sinceSelect[i]) => quiet[i] >= DebounceTicks
    /\ (/\ mounted[i]
        /\ ~sinceSelect[i]
        /\ Len(Trim(query[i])) >= MinQueryLen
        /\ quiet[i] > DebounceTicks) => reqSinceEdit[i] = 1

(***************************************************************************)
(* C4: a user edit that leaves fewer than 3 trimmed characters leaves the  *)
(* suggestions empty, the panel closed and no timer pending; no request    *)
(* is ever sent for such a query; a user edit leaving exactly 3 trimmed    *)
(* characters, unchanged for the quiet period, has sent exactly one.       *)
(***************************************************************************)
C4_ShortQuery ==
  [][\A i \in Instances :
       /\ (UserEdit(i) /\ Len(Trim(query'[i])) < MinQueryLen)
            => /\ suggestions'[i] = <<>>
               /\ ~open'[i]
               /\ \A tm \in timers' : tm.inst # i
       /\ \A k \in DOMAIN issued' : Len(issued'[k].q) >= MinQueryLen
       /\ (/\ mounted'[i]
           /\ ~sinceSelect'[i]
           /\ Len(Trim(query'[i])) = MinQueryLen
           /\ quiet'[i] > DebounceTicks) => reqSinceEdit'[i] = 1]_vars

(***************************************************************************)
(* C5: the just-selected marker never meets a user edit: every user edit   *)
(* goes through the debounce pipeline, arming a 300ms timer for the new    *)
(* text when it has at least 3 trimmed characters and clearing the         *)
(* suggestions otherwise.                                                  *)
(***************************************************************************)
C5_MarkerConsumedByOwnChange ==
  [][\A i \in Instances :
       UserEdit(i) =>
         /\ ~justSelected[i]
         /\ IF Len(Trim(query'[i])) >= MinQueryLen
            THEN \E tm \in timers' :
                   tm.inst = i /\ tm.q = query'[i] /\ tm.left = DebounceTicks
            ELSE suggestions'[i] = <<>> /\ ~open'[i]]_vars

C7_FailureIsNotNotFound ==
  [][\A i \in Instances :
       /\ (ResultApplied(i) /\ lastResp'.kind \in {"reject", "error_body"})
            => error'[i] # Some(NoResultsMsg)
       /\ (error'[i] = Some(NoResultsMsg) /\ error[i] # Some(NoResultsMsg))
            => (ResultApplied(i) /\ lastResp'.kind = "features"
                                 /\ lastResp'.n = 0)]_vars

(***************************************************************************)
(* C8: when a search response with zero results is applied, the error is   *)
(* 'No results found', the suggestion list is empty, no dropdown is        *)
(* rendered, the dropdown geometry is null and the instance has no scroll  *)
(* or resize listener.                                                     *)
(***************************************************************************)
C8_ZeroResults ==
  [][\A i \in Instances :
       (ResultApplied(i) /\ lastResp'.kind # "reject" /\ lastResp'.n = 0)
         => /\ error'[i] = Some(NoResultsMsg)
            /\ suggestions'[i] = <<>>
            /\ ~Displayed(i)'
            /\ dropdownStyle'[i] = None
            /\ listeners' \cap ListenersOf(i) = {}]_vars

\* a response with no features was applied
C8_Witness ==
  /\ lastResp.kind = "features"
  /\ lastResp.n = 0
  /\ lastResp.inst = 1
  /\ mounted[1]
  /\ error[1] = Some(NoResultsMsg)
  /\ open[1]
  /\ dropdownStyle[1] = None

(***************************************************************************)
(* C9: the scroll and resize listeners of an instance are registered if    *)
(* and only if it is mounted with its panel open and at least one          *)
(* suggestion; the geometry is non-null only while they are registered,    *)
(* and a displayed dropdown has the geometry of the input's current        *)
(* rectangle.                                                              *)
(***************************************************************************)
C9_GeometrySubscription ==
  \A i \in Instances :
    /\ (ListenersOf(i) \subseteq listeners)
         <=> (mounted[i] /\ open[i] /\ Len(suggestions[i]) > 0)
    /\ (listeners \cap ListenersOf(i)) \in {{}, ListenersOf(i)}
    /\ (mounted[i] /\ dropdownStyle[i] # None)
         => ListenersOf(i) \subseteq listeners
    /\ Displayed(i)
         => dropdownStyle[i] = UpdateDropdownPosition(i, scrollPos, winWidth)

\* the list of the second request is displayed after a scroll and a resize
C9_Witness ==
  /\ Displayed(1)
  /\ ListenersOf(1) \subseteq listeners
  /\ lastResp.seq = 2
  /\ scrollPos = 1
  /\ winWidth = 2
  /\ dropdownStyle[1] = UpdateDropdownPosition(1, 1, 2)

(***************************************************************************)
(* C10: once an instance is unmounted it has no pending timer and no       *)
(* window listener, and no request is sent for it afterwards.              *)
(***************************************************************************)
C10_UnmountCleansUp ==
  [][\A i \in Instances :
       ~mounted'[i] =>
         /\ \A tm \in timers' : tm.inst # i
         /\ listeners' \cap ListenersOf(i) = {}
         /\ ~mounted[i] => RequestsOf(i)' = RequestsOf(i)]_vars

\* instance 1 was unmounted with its timer pending and its panel open
C10_Witness ==
  /\ ~mounted[1]
  /\ effectHandle[1] # None
  /\ quiet[1] < DebounceTicks
  /\ reqSinceEdit[1] = 0
  /\ open[1]
  /\ dropdownStyle[1] # None
  /\ timers = {}
  /\ listeners = {}

Footprint(i) ==
  <<query[i], suggestions[i], open[i], error[i], dropdownStyle[i],
    listeners \cap ListenersOf(i), justSelected[i], point[i],
    {tm.handle : tm \in TimersOf(i)}, {r \in inflight : r.inst = i}>>

WindowMoved == scrollPos' # scrollPos \/ winWidth' # winWidth

StopCount == IF stops = None THEN 0 ELSE Len(stops[1])

\* floor(q) for the quotient q = a / b of naturals, b > 0, said without
\* division: the largest whole number j with j * b <= a
IsFloorOf(j, a, b) == j * b <= a /\ a < (j + 1) * b

(***************************************************************************)
(* C13: stop placement returns an empty list when the path has fewer than  *)
(* two points, for any non-empty stops, and when stops is empty or absent, *)
(* for any path; otherwise it returns exactly one placed stop per input    *)
(* stop, in input order.                                                   *)
(***************************************************************************)
C13_PlacementShape ==
  /\ (StopCount > 0 /\ Len(path) < 2) => stopMarkers = <<>>
  /\ StopCount = 0 => stopMarkers = <<>>
  /\ (StopCount > 0 /\ Len(path) >= 2) =>
       /\ Len(stopMarkers) = StopCount
       /\ \A k \in 1..StopCount :
            /\ stopMarkers[k].type = stops[1][k].type
            /\ stopMarkers[k].duration_minutes = stops[1][k].duration_minutes
            /\ \E v \in DOMAIN path : stopMarkers[k].position = path[v]

\* two or more stops placed on a decoded string route
C13_Witness ==
  /\ encodedPolyline.kind = "string"
  /\ Len(path) >= 2
  /\ StopCount >= 2
  /\ Len(stopMarkers) = StopCount

PointSet ==
  {path[k] : k \in DOMAIN path} \cup
  {<<anchors[n][1].lat, anchors[n][1].lng>> : n \in {m \in AnchorNames : anchors[m] # None}}

\* lo and hi are the least and the greatest value of the points on an axis
IsRange(lo, hi, axis) ==
  /\ \E p \in PointSet : p[axis] = lo
  /\ \E p \in PointSet : p[axis] = hi
  /\ \A p \in PointSet : lo <= p[axis] /\ p[axis] <= hi

(***************************************************************************)
(* C16: for a non-empty point set (path points and present anchors) the    *)
(* center is, on each axis, the middle of the least and the greatest value *)
(* of the points, so least <= center <= greatest; for the empty point set  *)
(* the center is the fixed default center.                                 *)
(***************************************************************************)
C16_CenterIsMidpoint ==
  IF PointSet = {}
  THEN center = DefaultCenter
  ELSE \A axis \in {1, 2} :
         \E lo, hi \in {p[axis] : p \in PointSet} :
           /\ IsRange(lo, hi, axis)
           /\ 2 * center[axis].num = (lo + hi) * center[axis].den
           /\ lo * center[axis].den <= center[axis].num
           /\ center[axis].num <= hi * center[axis].den

\* path points and an anchor together, the center away from every point
C16_Witness ==
  /\ Len(path) >= 3
  /\ anchors["pickup"] # None
  /\ center # DefaultCenter
  /\ \A p \in PointSet :
       p[1] * center[1].den # center[1].num /\ p[2] * center[2].den # center[2].num

(***************************************************************************)
(* C17: each time the path or an anchor changes, the map is told to fit    *)
(* the envelope of exactly the current path points plus the anchors        *)
(* present, with padding 24 and maximum zoom 14; with no path point and no *)
(* anchor no instruction is issued and the view is left as it was; running *)
(* again with unchanged inputs yields the same viewport: whenever there is *)
(* a point and the view is a fitted one, it is the fit of the current      *)
(* points.                                                                 *)
(***************************************************************************)
IsFitOfPoints(v) ==
  /\ v.kind = "fit"
  /\ IsRange(v.bounds.south, v.bounds.north, 1)
  /\ IsRange(v.bounds.west, v.bounds.east, 2)
  /\ v.padding = <<24, 24>>
  /\ v.maxZoom = 14

C17_FitOnChange ==
  [][/\ (path' # path \/ anchors' # anchors) =>
          IF PointSet' = {} THEN view' = view ELSE IsFitOfPoints(view)'
     /\ (PointSet' # {} /\ view'.kind = "fit") => IsFitOfPoints(view)']_vars

\* the view is fitted to a route and the dropoff, which lies outside the
\* envelope of the route alone
C17_Witness ==
  /\ Len(path) >= 2
  /\ anchors["dropoff"] # None
  /\ IsFitOfPoints(view)
  /\ view.bounds # LatLngBounds(path)

\* the characters that end a value: those without the continuation bit
EndsValue(c) == CharCode[c] - 63 < 32

\* an encoded string is complete when it is a row of pairs of values, each
\* value some continuing characters and one that ends it
Complete(str) ==
  /\ Len(str) > 0 => EndsValue(str[Len(str)])
  /\ Cardinality({k \in DOMAIN str : EndsValue(str[k])}) % 2 = 0

(***************************************************************************)
(* C18: path decoding never signals failure and degrades to "no route":    *)
(* for null or absent input, for the empty string and for every malformed  *)
(* encoded string (one that ends prematurely) the decoded path is empty.   *)
(***************************************************************************)
C18_MalformedGivesNoRoute ==
  \/ encodedPolyline.kind = "array"
  \/ encodedPolyline.kind = "string" /\ encodedPolyline.value # <<>>
       /\ Complete(encodedPolyline.value)
  \/ path = <<>>

(***************************************************************************)
(* C19: suggestions are cleared on a new query: when the user edits the    *)
(* query text, the previous suggestions are cleared and the panel leaves   *)
(* Open as soon as the edit is processed.                                  *)
(***************************************************************************)
C19_EditClearsSuggestions ==
  [][\A i \in Instances :
       UserEdit(i) => suggestions'[i] = <<>> /\ ~open'[i] /\ ~Displayed(i)']_vars

(***************************************************************************)
(* C20: when two or more stops map to the same path vertex none is         *)
(* dropped: every stop is rendered, and the keys of the rendered stop      *)
(* markers (type, list index, position) are pairwise distinct.             *)
(***************************************************************************)
C20_CoincidentStopsKept ==
  (StopCount >= 1 /\ Len(path) >= 2) =>
    /\ Len(stopMarkers) = StopCount
    /\ Len(markerKeys) = StopCount
    /\ \A k, m \in DOMAIN markerKeys : k # m => markerKeys[k] # markerKeys[m]

\* two stops of one type on one vertex
C20_Witness ==
  \E k, m \in DOMAIN stopMarkers :
    /\ k # m
    /\ stopMarkers[k].type = stopMarkers[m].type
    /\ stopMarkers[k].idx = stopMarkers[m].idx
    /\ stopMarkers[k].position = stopMarkers[m].position
    /\ Len(markerKeys) = StopCount

(***************************************************************************)
(* C21: an error message and a displayed suggestion list never coexist:    *)
(* in every reachable state, if the error of an instance is non-null then  *)
(* its suggestion list is empty.                                           *)
(***************************************************************************)
C21_ErrorExcludesList ==
  \A i \in Instances :
    (mounted[i] /\ error[i] # None) => suggestions[i] = <<>>

(***************************************************************************)
(* C22: the log detail shown by LogsViewerPage always belongs to the log   *)
(* the user selected last: in every reachable state where a detail is      *)
(* displayed, it is the response to getTripLog(selectedId).                *)
(***************************************************************************)
C22_DetailOfSelectedLog ==
  selected # None =>
    selectedId # None /\ selected = Some(DetailOf(selectedId[1]))

=============================================================================
